---- MODULE Spec2Model ----
(***************************************************************************)
(* The element rendering protocol of crates/gpui2/src/element.rs: the      *)
(* draw-phase wrapper (DrawableElement), the reclaimable container         *)
(* (Option<DrawableElement<E>>) behind the erasure boundary, the one-off   *)
(* RenderOnce::draw, the re-erasure of a handle (AnyElement::into_any),    *)
(* the composite adapter (CompositeElement) and the children helper        *)
(* (ParentElement).  A Rust panic is modelled as an operation that stops   *)
(* at the failing expression: everything done before it stays done,        *)
(* values moved into the failing call are dropped.                         *)
(***************************************************************************)
EXTENDS Integers, Sequences, FiniteSets, TLC

\* ------------------------------------------------------------------ bounds
MaxState == 1
NumSpaces == 2
NumOrigins == 1
NumIds == 1
MaxLayouts == 2
MaxPasses == 2
MaxChildren == 5
MaxBatch == 2

\* ------------------------------------------------------- option encodings
\* Option::None of Option<E::State>, Option<ElementId>, Option<E> and of the
\* recorded constraint are numbers outside the range of the Some values.
NoState == -1
NoId == 0
NoElement == -1
NoSpace == 0
NoLayout == 0
Unsized == 0

States == 0..MaxState
Spaces == 1..NumSpaces
Origins == 1..NumOrigins
Ids == 1..NumIds
LayoutIds == 1..MaxLayouts

\* ------------------------------------------------------------------ state
VARIABLES
    slot,    \* the reclaimable container Option<DrawableElement<E>> of one handle
    cx,      \* the WindowContext: persisted store, solver bounds, offset stack, call log
    last,    \* the operation that ran last, its inputs, outcome and call log
    expect,  \* per identity: the state the node's own logic left last
    laid,    \* per identity: whether a node layout ever completed under it
    pass,    \* number of wrappers created for the handle so far
    paints,  \* node paint invocations made through the current container
    twin,    \* the handle into_any makes of an equal handle, with a context of its own
    adapter, \* a CompositeElement<C>: its component, and how often it was rendered
    frame,   \* the Option<CompositeElementState<C>> held by whoever drives the adapter
    children,\* the children sequence of a ParentElement
    args     \* the values given to child / children so far, in call order

vars == <<slot, cx, last, expect, laid, pass, paints, twin, adapter, frame, children, args>>

\* The parts of the state that belong to one group of operations.
erasedVars == <<twin>>
compositeVars == <<adapter, frame>>
parentVars == <<children, args>>

\* ---------------------------------------------------------------- call log
Emit(c, e, x, y, z) ==
    [c EXCEPT !.log = Append(@, [ev |-> e, a |-> x, b |-> y, c |-> z,
                                  off |-> c.offsets[Len(c.offsets)]])]

Events(log, e) == {i \in 1..Len(log) : log[i].ev = e}

Count(log, e) == Cardinality(Events(log, e))

\* ------------------------------------------- external collaborators (cx.*)
\* The size the solver computes for a constraint.
SolveSize(space) == 10 * space

compute_layout(c, layout_id, available_space) ==
    Emit([c EXCEPT !.bounds[layout_id] = SolveSize(available_space)],
         "compute_layout", layout_id, available_space, 0)

layout_bounds(c, layout_id) ==
    Emit(c, "layout_bounds", layout_id, c.bounds[layout_id], 0)

\* with_element_state(id, f): the lookup handed to f ...
with_element_state_enter(c, id) ==
    Emit(c, "state_read", id, c.store[id], 0)

\* ... and the write-back of the state f returns.
with_element_state_exit(c, id, state) ==
    Emit([c EXCEPT !.store[id] = state], "state_write", id, state, 0)

\* with_absolute_element_offset(origin, f): the shift before f ...
with_absolute_element_offset_enter(c, origin) ==
    [c EXCEPT !.offsets = Append(@, origin)]

\* ... and its restoration when f is left, normally or by a failure.
with_absolute_element_offset_exit(c) ==
    [c EXCEPT !.offsets = SubSeq(@, 1, Len(@) - 1)]

\* ------------------------------------------------- the wrapped node (leaf)
\* Element::layout of the node: registers with the solver, returns a fresh
\* layout id and the state ls its own logic produces from the previous one.
Element_layout(c, state, ls) ==
    LET id == c.next_layout_id
    IN  [cx |-> Emit([c EXCEPT !.next_layout_id = id + 1], "node_layout", state, ls, id),
         layout_id |-> id,
         state |-> ls]

\* Element::paint of the node: consumes it; its own logic leaves state ps.
Element_paint(c, bounds, state, ps) ==
    [cx |-> Emit(c, "node_paint", bounds, state, ps), state |-> ps]

\* --------------------------------------------------------- DrawableElement
Start == "Start"
LayoutRequested == "LayoutRequested"
LayoutComputed == "LayoutComputed"

DrawableElement_new(element) ==
    [element |-> element, phase |-> Start, layout_id |-> NoLayout,
     available_space |-> NoSpace, frame_state |-> NoState]

DrawableElement_element_id(w) ==
    IF w.element = NoElement THEN NoId ELSE w.element

Failed(c, w) == [cx |-> c, w |-> w, ok |-> FALSE, ret |-> 0]

\* The tail of layout: the phase is set from what the node's layout returned.
layout_requested(w, c, layout_id, frame_state) ==
    [cx |-> c,
     w |-> [w EXCEPT !.phase = LayoutRequested, !.layout_id = layout_id,
                     !.available_space = NoSpace, !.frame_state = frame_state],
     ok |-> TRUE, ret |-> layout_id]

\* Faulty variant: the state the node's layout returned is not written back.
layout_identified_NoWriteBack(w, r) ==
    layout_requested(w, r.cx, r.layout_id, NoState)

\* The identified arm: the node's layout ran inside with_element_state, its
\* state is written back and no inline copy is kept.
layout_identified(w, r) ==
    layout_requested(w, with_element_state_exit(r.cx, w.element, r.state),
                     r.layout_id, NoState)

\* The unidentified arm: the returned state is kept inline.
layout_unidentified(w, r) ==
    layout_requested(w, r.cx, r.layout_id, r.state)

DrawableElement_layout(w, c, ls) ==
    IF w.element = NoElement THEN Failed(c, w)
    ELSE IF w.element # NoId
    THEN layout_identified(w, Element_layout(with_element_state_enter(c, w.element),
                                             c.store[w.element], ls))
    ELSE layout_unidentified(w, Element_layout(c, NoState, ls))

PaintResult(c, ok, ret) == [cx |-> c, ok |-> ok, ret |-> ret]

\* Inline frame state: the node paints with it and it is handed back.
paint_inline(r) == PaintResult(r.cx, TRUE, r.state)

\* Faulty variant: the state the node's paint left is not written back.
paint_persisted_NoWriteBack(w, r) ==
    PaintResult(r.cx, TRUE, NoState)

\* Persisted state: the node painted inside with_element_state; the state
\* is written back and nothing is handed back.
paint_persisted(w, r) ==
    PaintResult(with_element_state_exit(r.cx, w.element, r.state), TRUE, NoState)

\* Faulty variant: the inline state is handed back as it was before the node painted.
paint_with_bounds_StaleState(w, c, bounds, ps) ==
    IF w.frame_state # NoState
    THEN PaintResult(Element_paint(c, bounds, w.frame_state, ps).cx, TRUE, w.frame_state)
    ELSE IF w.element = NoElement \/ w.element = NoId \/ c.store[w.element] = NoState
         THEN PaintResult(c, FALSE, NoState)
         ELSE paint_persisted(w, Element_paint(with_element_state_enter(c, w.element),
                                               bounds, c.store[w.element], ps))

\* The arm for LayoutRequested | LayoutComputed, after cx.layout_bounds.
paint_with_bounds(w, c, bounds, ps) ==
    IF w.frame_state # NoState
    THEN IF w.element = NoElement THEN PaintResult(c, FALSE, NoState)
         ELSE paint_inline(Element_paint(c, bounds, w.frame_state, ps))
    ELSE IF w.element = NoElement \/ w.element = NoId
         THEN PaintResult(c, FALSE, NoState)
         ELSE IF c.store[w.element] = NoState
              THEN PaintResult(with_element_state_enter(c, w.element), FALSE, NoState)
              ELSE paint_persisted(w, Element_paint(with_element_state_enter(c, w.element),
                                                    bounds, c.store[w.element], ps))

\* Faulty variant: paint in any other phase returns quietly instead of failing.
DrawableElement_paint_SilentNoOp(w, c, ps) ==
    IF w.phase \in {LayoutRequested, LayoutComputed}
    THEN paint_with_bounds(w, layout_bounds(c, w.layout_id), c.bounds[w.layout_id], ps)
    ELSE PaintResult(c, TRUE, NoState)

\* paint(mut self): the wrapper is moved in and dropped; the result carries
\* the Option<E::State> handed back.
DrawableElement_paint(w, c, ps) ==
    IF w.phase \in {LayoutRequested, LayoutComputed}
    THEN paint_with_bounds(w, layout_bounds(c, w.layout_id), c.bounds[w.layout_id], ps)
    ELSE PaintResult(c, FALSE, NoState)

\* cx.layout_bounds(layout_id).size, the value measure returns.
measure_size(w, c) ==
    [cx |-> layout_bounds(c, w.layout_id), w |-> w, ok |-> TRUE,
     ret |-> c.bounds[w.layout_id]]

\* Faulty variant: the transition to LayoutComputed forgets the inline frame state.
measure_requested_DropsState(r0, available_space) ==
    measure_size([r0.w EXCEPT !.phase = LayoutComputed,
                              !.available_space = available_space,
                              !.frame_state = NoState],
                 compute_layout(r0.cx, r0.w.layout_id, available_space))

\* Faulty variant: the solver is asked but the phase stays LayoutRequested.
measure_requested_StaysRequested(r0, available_space) ==
    measure_size(r0.w, compute_layout(r0.cx, r0.w.layout_id, available_space))

\* The LayoutRequested arm: compute, then LayoutComputed with the constraint
\* recorded and the frame state carried over.
measure_requested(r0, available_space) ==
    measure_size([r0.w EXCEPT !.phase = LayoutComputed,
                              !.available_space = available_space],
                 compute_layout(r0.cx, r0.w.layout_id, available_space))

\* Faulty variant: the solver is asked again whatever the recorded constraint.
measure_computed_AlwaysComputes(r0, available_space) ==
    measure_size([r0.w EXCEPT !.available_space = available_space],
                 compute_layout(r0.cx, r0.w.layout_id, available_space))

\* Faulty variant: a changed constraint is computed but not recorded.
measure_computed_KeepsOldSpace(r0, available_space) ==
    IF available_space # r0.w.available_space
    THEN measure_size(r0.w, compute_layout(r0.cx, r0.w.layout_id, available_space))
    ELSE measure_size(r0.w, r0.cx)

\* The LayoutComputed arm: compute only for a constraint other than the
\* recorded one, and record it.
measure_computed(r0, available_space) ==
    IF available_space # r0.w.available_space
    THEN measure_size([r0.w EXCEPT !.available_space = available_space],
                      compute_layout(r0.cx, r0.w.layout_id, available_space))
    ELSE measure_size(r0.w, r0.cx)

\* The match on the phase, r0 being the wrapper after the layout a Start
\* phase calls for.
measure_phase(r0, available_space) ==
    IF ~r0.ok THEN r0
    ELSE IF r0.w.phase = LayoutRequested THEN measure_requested(r0, available_space)
    ELSE IF r0.w.phase = LayoutComputed THEN measure_computed(r0, available_space)
    ELSE Failed(r0.cx, r0.w)

DrawableElement_measure(w, c, available_space, ls) ==
    measure_phase(IF w.phase = Start THEN DrawableElement_layout(w, c, ls)
                  ELSE [cx |-> c, w |-> w, ok |-> TRUE, ret |-> 0],
                  available_space)

\* Used by the faulty variant of draw_measured only.
draw_painted_if_ok(p) ==
    IF p.ok THEN PaintResult(with_absolute_element_offset_exit(p.cx), p.ok, p.ret) ELSE p

\* The scope of with_absolute_element_offset is left with paint's outcome p.
draw_painted(p) ==
    PaintResult(with_absolute_element_offset_exit(p.cx), p.ok, p.ret)

\* Faulty variant: the offset scope is closed only when paint returns normally.
draw_measured_LeaksOffset(m, origin, ps) ==
    IF ~m.ok THEN PaintResult(m.cx, FALSE, NoState)
    ELSE draw_painted_if_ok(DrawableElement_paint(
             m.w, with_absolute_element_offset_enter(m.cx, origin), ps))

\* self.paint(cx) inside the offset scope, m being measure's outcome.
draw_measured(m, origin, ps) ==
    IF ~m.ok THEN PaintResult(m.cx, FALSE, NoState)
    ELSE draw_painted(DrawableElement_paint(
             m.w, with_absolute_element_offset_enter(m.cx, origin), ps))

\* Used by the faulty variant of DrawableElement_draw that measures inside the
\* offset scope: m is the outcome of that measure.
draw_shifted(m, ps) ==
    IF ~m.ok THEN PaintResult(with_absolute_element_offset_exit(m.cx), FALSE, NoState)
    ELSE draw_painted(DrawableElement_paint(m.w, m.cx, ps))

\* Faulty variant: the offset scope is entered before measure, not after it.
DrawableElement_draw_MeasuresShifted(w, c, origin, available_space, ls, ps) ==
    draw_shifted(DrawableElement_measure(w, with_absolute_element_offset_enter(c, origin),
                                         available_space, ls),
                 ps)

\* Faulty variant: the node is laid out and painted, the solver never asked.
DrawableElement_draw_PaintsUnmeasured(w, c, origin, available_space, ls, ps) ==
    draw_measured(DrawableElement_layout(w, c, ls), origin, ps)

\* draw(mut self, origin, available_space, cx)
DrawableElement_draw(w, c, origin, available_space, ls, ps) ==
    draw_measured(DrawableElement_measure(w, c, available_space, ls), origin, ps)

\* --------------------------- impl ElementObject for Option<DrawableElement<E>>
Some(w) == [some |-> TRUE, w |-> w]

None == [some |-> FALSE, w |-> DrawableElement_new(NoElement)]

Panicked(c, s) == [cx |-> c, slot |-> s, ok |-> FALSE, ret |-> 0]

Option_element_id(s, c) ==
    IF ~s.some THEN Panicked(c, s)
    ELSE [cx |-> c, slot |-> s, ok |-> TRUE, ret |-> DrawableElement_element_id(s.w)]

\* A &mut self method: the wrapper stays in the container, as the call left it.
Kept(r) == [cx |-> r.cx, slot |-> Some(r.w), ok |-> r.ok, ret |-> r.ret]

\* Used by the faulty variant of Option_paint only.
Borrowed(s, r) == [cx |-> r.cx, slot |-> s, ok |-> r.ok, ret |-> 0]

\* A self method behind self.take(): the container is left empty.
Taken(r) == [cx |-> r.cx, slot |-> None, ok |-> r.ok, ret |-> 0]

Option_layout(s, c, ls) ==
    IF ~s.some THEN Panicked(c, s)
    ELSE Kept(DrawableElement_layout(s.w, c, ls))

\* Faulty variant: paint borrows the wrapper and leaves it in the container.
Option_paint_Borrowed(s, c, ps) ==
    IF ~s.some THEN Panicked(c, s)
    ELSE Borrowed(s, DrawableElement_paint(s.w, c, ps))

\* Faulty variant: the phase is looked at before the wrapper is taken, and a
\* wrapper in Start stays in the container when paint fails.
Option_paint_ChecksPhaseFirst(s, c, ps) ==
    IF ~s.some THEN Panicked(c, s)
    ELSE IF s.w.phase = Start THEN [cx |-> c, slot |-> s, ok |-> FALSE, ret |-> 0]
    ELSE Taken(DrawableElement_paint(s.w, c, ps))

Option_paint(s, c, ps) ==
    IF ~s.some THEN Panicked(c, s)
    ELSE Taken(DrawableElement_paint(s.w, c, ps))

\* Faulty variant: measuring an empty container quietly returns a default size.
Option_measure_Lenient(s, c, available_space, ls) ==
    IF ~s.some THEN [cx |-> c, slot |-> s, ok |-> TRUE, ret |-> 0]
    ELSE Kept(DrawableElement_measure(s.w, c, available_space, ls))

Option_measure(s, c, available_space, ls) ==
    IF ~s.some THEN Panicked(c, s)
    ELSE Kept(DrawableElement_measure(s.w, c, available_space, ls))

Option_draw(s, c, origin, available_space, ls, ps) ==
    IF ~s.some THEN Panicked(c, s)
    ELSE Taken(DrawableElement_draw(s.w, c, origin, available_space, ls, ps))

\* -------------------------------------------------------------- AnyElement
AnyElement_new(element) == Some(DrawableElement_new(element))

AnyElement_layout(h, c, ls) == Option_layout(h, c, ls)

AnyElement_paint(h, c, ps) == Option_paint(h, c, ps)

AnyElement_measure(h, c, available_space, ls) == Option_measure(h, c, available_space, ls)

AnyElement_draw(h, c, origin, available_space, ls, ps) ==
    Option_draw(h, c, origin, available_space, ls, ps)

\* inner_id(&self): the identity the erasure boundary reports.
AnyElement_inner_id(h, c) == Option_element_id(h, c)

\* ------------------------------- AnyElement as the node of another wrapper
\* impl RenderOnce for AnyElement: no identity, whatever the handle wraps.
AnyElement_element_id(h) == NoId

\* The only value of type State = () of impl Element for AnyElement.
Unit == 0

\* impl Element for AnyElement: layout ignores the previous state and lays
\* out the handle; the outcome's ret is the layout id, the state is ().
AnyElement_Element_layout(h, c, ls) == AnyElement_layout(h, c, ls)

\* impl Element for AnyElement: paint ignores bounds and state and paints the
\* handle.
AnyElement_Element_paint(h, c, ps) == AnyElement_paint(h, c, ps)

\* DrawableElement::new for E = AnyElement: the node is the handle h.
DrawableElement_new_erased(h) ==
    [element |-> h, phase |-> Start, layout_id |-> NoLayout,
     available_space |-> NoSpace, frame_state |-> NoState]

\* DrawableElement::element_id for E = AnyElement.
DrawableElement_element_id_erased(w) == AnyElement_element_id(w.element)

\* The tail of layout for E = AnyElement, r being the outcome of the node's
\* layout(None, cx): the returned () is kept inline.
layout_unidentified_erased(w, r) ==
    IF ~r.ok THEN Failed(r.cx, [w EXCEPT !.element = r.slot])
    ELSE layout_requested([w EXCEPT !.element = r.slot], r.cx, r.ret, Unit)

\* DrawableElement::layout for E = AnyElement: element_id() is None, so the
\* unidentified arm is the only one taken.
DrawableElement_layout_erased(w, c, ls) ==
    layout_unidentified_erased(w, AnyElement_Element_layout(w.element, c, ls))

\* The inline () handed back once the node has painted.
paint_inline_erased(r) ==
    PaintResult(r.cx, r.ok, IF r.ok THEN Unit ELSE NoState)

\* DrawableElement::paint for E = AnyElement: the wrapper reads the bounds,
\* then the node (the handle) paints, reading them again for itself.
DrawableElement_paint_erased(w, c, ps) ==
    IF w.phase \in {LayoutRequested, LayoutComputed}
    THEN IF w.frame_state # NoState
         THEN paint_inline_erased(
                  AnyElement_Element_paint(w.element, layout_bounds(c, w.layout_id), ps))
         ELSE PaintResult(layout_bounds(c, w.layout_id), FALSE, NoState)
    ELSE PaintResult(c, FALSE, NoState)

\* DrawableElement::measure for E = AnyElement: the phase logic is that of
\* every wrapper; the node is only laid out, never measured.
DrawableElement_measure_erased(w, c, available_space, ls) ==
    measure_phase(IF w.phase = Start THEN DrawableElement_layout_erased(w, c, ls)
                  ELSE [cx |-> c, w |-> w, ok |-> TRUE, ret |-> 0],
                  available_space)

draw_measured_erased(m, origin, ps) ==
    IF ~m.ok THEN PaintResult(m.cx, FALSE, NoState)
    ELSE draw_painted(DrawableElement_paint_erased(
             m.w, with_absolute_element_offset_enter(m.cx, origin), ps))

DrawableElement_draw_erased(w, c, origin, available_space, ls, ps) ==
    draw_measured_erased(DrawableElement_measure_erased(w, c, available_space, ls),
                         origin, ps)

\* impl ElementObject for Option<DrawableElement<AnyElement>>
Option_element_id_erased(s, c) ==
    IF ~s.some THEN Panicked(c, s)
    ELSE [cx |-> c, slot |-> s, ok |-> TRUE, ret |-> DrawableElement_element_id_erased(s.w)]

Option_layout_erased(s, c, ls) ==
    IF ~s.some THEN Panicked(c, s)
    ELSE Kept(DrawableElement_layout_erased(s.w, c, ls))

Option_paint_erased(s, c, ps) ==
    IF ~s.some THEN Panicked(c, s)
    ELSE Taken(DrawableElement_paint_erased(s.w, c, ps))

Option_measure_erased(s, c, available_space, ls) ==
    IF ~s.some THEN Panicked(c, s)
    ELSE Kept(DrawableElement_measure_erased(s.w, c, available_space, ls))

Option_draw_erased(s, c, origin, available_space, ls, ps) ==
    IF ~s.some THEN Panicked(c, s)
    ELSE Taken(DrawableElement_draw_erased(s.w, c, origin, available_space, ls, ps))

\* AnyElement::into_any: AnyElement::new(self), a new wrapper in a new
\* container around the handle.
AnyElement_into_any(h) == Some(DrawableElement_new_erased(h))

\* -------------------------------------------------------- CompositeElement
\* Option::None of CompositeElement::component.
NoComponent == -1

\* A component is known by the identity of the node it renders (NoId for a
\* node without one); renders counts the render calls made on this adapter.
CompositeElement_new(component) ==
    [live |-> TRUE, component |-> component, renders |-> 0]

\* Option<CompositeElementState<C>>: None, and Some of the two fields.
NoFrame ==
    [some |-> FALSE, rendered_element |-> NoElement, rendered_element_state |-> NoState]

CompositeElementState(rendered_element, rendered_element_state) ==
    [some |-> TRUE, rendered_element |-> rendered_element,
     rendered_element_state |-> rendered_element_state]

\* state.map(|s| s.rendered_element_state)
nested_state(state) ==
    IF state.some THEN state.rendered_element_state ELSE NoState

\* Component::render and render_once: the call is logged with the component.
Component_render(c, component) == Emit(c, "render", component, 0, 0)

CompositeOutcome(c, a, ok, ret, state) ==
    [cx |-> c, adapter |-> a, ok |-> ok, ret |-> ret, state |-> state]

\* Faulty variant: the component is borrowed, not taken, and can render again.
composite_laid_KeepsComponent(a, r) ==
    CompositeOutcome(r.cx, [a EXCEPT !.renders = @ + 1], TRUE, r.layout_id,
                     CompositeElementState(a.component, r.state))

\* The tail of layout, r being the outcome of the nested node's layout: the
\* component is gone, the nested node and its state make the composite state.
composite_laid(a, r) ==
    CompositeOutcome(r.cx, [a EXCEPT !.component = NoComponent, !.renders = @ + 1],
                     TRUE, r.layout_id, CompositeElementState(a.component, r.state))

\* self.component.take().unwrap().render(cx).render_once(), then the nested
\* node's layout with the nested previous state; c has the call logged.
composite_render(a, state, c, ls) ==
    IF a.component = NoComponent THEN CompositeOutcome(c, a, FALSE, 0, NoFrame)
    ELSE composite_laid(a, Element_layout(Component_render(c, a.component),
                                          nested_state(state), ls))

\* layout(&mut self, state: Option<Self::State>, cx)
CompositeElement_layout(a, state, c, ls) ==
    composite_render(a, state, Emit(c, "adapter_layout", nested_state(state), 0, 0), ls)

\* The nested node has painted: it is gone from the composite state, which
\* keeps the nested state as the node left it.
composite_painted(state, r) ==
    [cx |-> r.cx, ok |-> TRUE, ret |-> 0,
     state |-> CompositeElementState(NoElement, r.state)]

\* paint(self, bounds, state: &mut Self::State, cx)
CompositeElement_paint(state, c, bounds, ps) ==
    IF state.rendered_element = NoElement
    THEN [cx |-> c, ok |-> FALSE, ret |-> 0, state |-> state]
    ELSE composite_painted(state, Element_paint(c, bounds, state.rendered_element_state, ps))

\* impl RenderOnce for CompositeElement<C>: no identity.
CompositeElement_element_id(a) == NoId

\* DrawableElement::layout for E = CompositeElement<C>: element_id() is None,
\* so the adapter is laid out with layout(None, cx) and outside the store.
DrawableElement_layout_composite(a, c, ls) ==
    CompositeElement_layout(a, NoFrame, c, ls)

\* ----------------------------------------------------------- ParentElement
\* child.render_once().into_any() of a node: a new handle around it.
render_into_any(child) == AnyElement_new(child)

\* child(mut self, child): children_mut().push(...)
ParentElement_child(kids, child) == Append(kids, render_into_any(child))

\* Faulty variant: the items are taken from the back of the input.
ParentElement_children_Reversed(kids, items) ==
    kids \o [i \in 1..Len(items) |-> render_into_any(items[Len(items) + 1 - i])]

\* children(mut self, children): children_mut().extend(into_iter().map(...))
ParentElement_children(kids, items) ==
    kids \o [i \in 1..Len(items) |-> render_into_any(items[i])]

\* -------------------------------------------------------- RenderOnce::draw
\* Faulty variant: what the continuation leaves in a persisted state is lost,
\* the state is written back as it was looked up.
draw_continue_DropsChanges(element_id, d, fs) ==
    IF ~d.ok THEN [cx |-> d.cx, ok |-> FALSE, ret |-> 0]
    ELSE IF d.ret # NoState
    THEN [cx |-> Emit(d.cx, "continuation", d.ret, fs, 0), ok |-> TRUE, ret |-> 0]
    ELSE IF element_id = NoId THEN [cx |-> d.cx, ok |-> FALSE, ret |-> 0]
    ELSE IF d.cx.store[element_id] = NoState
    THEN [cx |-> with_element_state_enter(d.cx, element_id), ok |-> FALSE, ret |-> 0]
    ELSE [cx |-> with_element_state_exit(
                     Emit(with_element_state_enter(d.cx, element_id),
                          "continuation", d.cx.store[element_id], fs, 0),
                     element_id, d.cx.store[element_id]),
          ok |-> TRUE, ret |-> 0]

\* The continuation f receives the state and leaves fs in it; d is the
\* outcome of DrawableElement::draw.
draw_continue(element_id, d, fs) ==
    IF ~d.ok THEN [cx |-> d.cx, ok |-> FALSE, ret |-> 0]
    ELSE IF d.ret # NoState
    THEN [cx |-> Emit(d.cx, "continuation", d.ret, fs, 0), ok |-> TRUE, ret |-> 0]
    ELSE IF element_id = NoId THEN [cx |-> d.cx, ok |-> FALSE, ret |-> 0]
    ELSE IF d.cx.store[element_id] = NoState
    THEN [cx |-> with_element_state_enter(d.cx, element_id), ok |-> FALSE, ret |-> 0]
    ELSE [cx |-> with_element_state_exit(
                     Emit(with_element_state_enter(d.cx, element_id),
                          "continuation", d.cx.store[element_id], fs, 0),
                     element_id, fs),
          ok |-> TRUE, ret |-> 0]

RenderOnce_draw(element, c, origin, available_space, ls, ps, fs) ==
    draw_continue(element,
                  DrawableElement_draw(DrawableElement_new(element), c, origin,
                                       available_space, ls, ps),
                  fs)

\* ------------------------------------------------------------------- ghosts
PhaseRank(s) ==
    IF ~s.some THEN 3
    ELSE IF s.w.phase = Start THEN 0
    ELSE IF s.w.phase = LayoutRequested THEN 1
    ELSE 2

\* The state the node's own logic (its layout, its paint, the caller's
\* continuation) left last, read off the calls actually made.
RECURSIVE LeftBy(_, _)
LeftBy(log, before) ==
    IF log = <<>> THEN before
    ELSE LET e == log[Len(log)]
             rest == SubSeq(log, 1, Len(log) - 1)
         IN  IF e.ev = "node_layout" THEN e.b
             ELSE IF e.ev = "node_paint" THEN e.c
             ELSE IF e.ev = "continuation" THEN e.b
             ELSE LeftBy(rest, before)

NoOp == [op |-> "none", space |-> NoSpace, origin |-> 0, id |-> NoId, ok |-> TRUE,
         ret |-> 0, log |-> <<>>, before |-> None, store0 |-> [i \in Ids |-> NoState],
         expect0 |-> NoState, laid0 |-> FALSE, offsets0 |-> <<0>>]

\* Bookkeeping shared by every operation: r is the operation's outcome.
Record(name, id, space, origin, r) ==
    /\ cx' = [r.cx EXCEPT !.log = <<>>]
    /\ last' = [op |-> name, space |-> space, origin |-> origin, id |-> id,
                ok |-> r.ok, ret |-> r.ret, log |-> r.cx.log, before |-> slot,
                store0 |-> cx.store,
                expect0 |-> IF id = NoId THEN NoState ELSE expect[id],
                laid0 |-> IF id = NoId THEN FALSE ELSE laid[id],
                offsets0 |-> cx.offsets]
    /\ expect' = IF id = NoId THEN expect
                 ELSE [expect EXCEPT ![id] = LeftBy(r.cx.log, @)]
    /\ laid' = IF id = NoId THEN laid
               ELSE [laid EXCEPT ![id] = @ \/ Count(r.cx.log, "node_layout") > 0]

SlotId == IF slot.some THEN DrawableElement_element_id(slot.w) ELSE NoId

\* ------------------------------------------------------------------ actions
\* The state after construction: a handle around `element`, an empty context,
\* the re-erasure of a handle around `erased`, an adapter around `component`.
Constructed(element, erased, component) ==
    /\ slot = AnyElement_new(element)
    /\ cx = [store |-> [i \in Ids |-> NoState],
             bounds |-> [l \in LayoutIds |-> Unsized],
             offsets |-> <<0>>,
             next_layout_id |-> 1,
             log |-> <<>>]
    /\ last = NoOp
    /\ expect = [i \in Ids |-> NoState]
    /\ laid = [i \in Ids |-> FALSE]
    /\ pass = 1
    /\ paints = 0
    /\ twin = [h |-> AnyElement_into_any(AnyElement_new(erased)), cx |-> cx,
               ok |-> TRUE, ret |-> 0, log |-> <<>>]
    /\ adapter = CompositeElement_new(component)
    /\ frame = NoFrame
    /\ children = <<>>
    /\ args = <<>>

Init == \E element \in {NoId} \cup Ids : Constructed(element, NoId, NoId)

\* the re-erased handle wraps a handle equal to the one in `slot`
InitErased == \E element \in {NoId} \cup Ids : Constructed(element, element, NoId)

\* the adapter is built around any component
InitComposite == \E component \in {NoId} \cup Ids : Constructed(component, NoId, component)

CanLayout == cx.next_layout_id <= MaxLayouts

\* The inputs an operation can read in the state it starts from; one that it
\* cannot read is fixed, so that calls that differ in nothing are one call.
WillLayout == slot.some /\ slot.w.phase = Start
WillPaint == slot.some /\ slot.w.phase # Start
LayoutStates(reads) == IF reads THEN States ELSE {0}
PaintStates(reads) == IF reads THEN States ELSE {0}
SpaceArgs == IF slot.some THEN Spaces ELSE {1}
OriginArgs == IF slot.some THEN Origins ELSE {1}

Layout ==
    /\ CanLayout
    /\ \E ls \in LayoutStates(slot.some) :
         \E r \in {AnyElement_layout(slot, cx, ls)} :
             /\ slot' = r.slot
             /\ Record("layout", SlotId, NoSpace, 0, r)
    /\ UNCHANGED <<pass, paints>>
    /\ UNCHANGED <<erasedVars, compositeVars, parentVars>>

Measure ==
    /\ CanLayout
    /\ \E space \in SpaceArgs, ls \in LayoutStates(WillLayout) :
         \E r \in {AnyElement_measure(slot, cx, space, ls)} :
             /\ slot' = r.slot
             /\ Record("measure", SlotId, space, 0, r)
    /\ UNCHANGED <<pass, paints>>
    /\ UNCHANGED <<erasedVars, compositeVars, parentVars>>

Paint ==
    /\ \E ps \in PaintStates(WillPaint) :
         \E r \in {AnyElement_paint(slot, cx, ps)} :
             /\ slot' = r.slot
             /\ Record("paint", SlotId, NoSpace, 0, r)
             /\ paints' = paints + Count(r.cx.log, "node_paint")
    /\ UNCHANGED pass
    /\ UNCHANGED <<erasedVars, compositeVars, parentVars>>

Draw ==
    /\ CanLayout
    /\ \E origin \in OriginArgs, space \in SpaceArgs,
          ls \in LayoutStates(WillLayout), ps \in PaintStates(slot.some) :
         \E r \in {AnyElement_draw(slot, cx, origin, space, ls, ps)} :
             /\ slot' = r.slot
             /\ Record("draw", SlotId, space, origin, r)
             /\ paints' = paints + Count(r.cx.log, "node_paint")
    /\ UNCHANGED pass
    /\ UNCHANGED <<erasedVars, compositeVars, parentVars>>

\* A one-off draw of another node value, outside the handle's container.
DrawOnce ==
    /\ CanLayout
    /\ \E element \in {NoId} \cup Ids, origin \in Origins, space \in Spaces,
          ls \in States, ps \in States, fs \in States :
         \E r \in {RenderOnce_draw(element, cx, origin, space, ls, ps, fs)} :
             Record("draw_once", element, space, origin, r)
    /\ UNCHANGED <<slot, pass, paints>>
    /\ UNCHANGED <<erasedVars, compositeVars, parentVars>>

\* The next pass: a fresh wrapper for the node is erased into the handle.
NewPass ==
    /\ pass < MaxPasses
    /\ \E element \in {NoId} \cup Ids :
         /\ slot' = AnyElement_new(element)
         /\ last' = [NoOp EXCEPT !.op = "new", !.id = element, !.before = slot,
                                 !.store0 = cx.store, !.offsets0 = cx.offsets]
    /\ pass' = pass + 1
    /\ paints' = 0
    /\ UNCHANGED <<cx, expect, laid>>
    /\ UNCHANGED <<erasedVars, compositeVars, parentVars>>

Next == Layout \/ Measure \/ Paint \/ Draw \/ NewPass

Spec == Init /\ [][Next]_vars

\* The handle's passes interleaved with one-off draws of other node values.
NextOnce == Layout \/ Measure \/ Paint \/ Draw \/ NewPass \/ DrawOnce

SpecOnce == Init /\ [][NextOnce]_vars

\* The store's owner may drop the state of an identity between operations
\* (its eviction policy is its own).
Evict ==
    /\ \E id \in Ids :
         /\ cx.store[id] # NoState
         /\ cx' = [cx EXCEPT !.store[id] = NoState]
         /\ expect' = [expect EXCEPT ![id] = NoState]
         /\ last' = [NoOp EXCEPT !.op = "evict", !.id = id, !.before = slot,
                                 !.store0 = cx.store, !.offsets0 = cx.offsets]
    /\ UNCHANGED <<slot, laid, pass, paints>>
    /\ UNCHANGED <<erasedVars, compositeVars, parentVars>>

NextEvict == Layout \/ Measure \/ Paint \/ Draw \/ NewPass \/ Evict

SpecEvict == Init /\ [][NextEvict]_vars

\* The identity query of the handle.
InnerId ==
    /\ \E r \in {AnyElement_inner_id(slot, cx)} :
         /\ slot' = r.slot
         /\ Record("inner_id", SlotId, NoSpace, 0, r)
    /\ UNCHANGED <<pass, paints>>
    /\ UNCHANGED <<erasedVars, compositeVars, parentVars>>

NextQuery == Layout \/ Measure \/ Paint \/ Draw \/ NewPass \/ InnerId

SpecQuery == Init /\ [][NextQuery]_vars

\* ------------------------------------- a handle and its re-erasure, abreast
\* Every operation is made on the handle and, with the same inputs, on the
\* handle into_any made of an equal handle, each against its own context.
\* AnyElement's methods reach the re-erased handle's container by self.0.
Twin(q) ==
    [h |-> q.slot, cx |-> [q.cx EXCEPT !.log = <<>>], ok |-> q.ok, ret |-> q.ret,
     log |-> q.cx.log]

CanLayoutBoth == CanLayout /\ twin.cx.next_layout_id <= MaxLayouts

BothLayout ==
    /\ CanLayoutBoth
    /\ \E ls \in States :
         \E r \in {AnyElement_layout(slot, cx, ls)},
            q \in {Option_layout_erased(twin.h, twin.cx, ls)} :
             /\ slot' = r.slot
             /\ Record("layout", SlotId, NoSpace, 0, r)
             /\ twin' = Twin(q)
    /\ UNCHANGED <<pass, paints, compositeVars, parentVars>>

BothMeasure ==
    /\ CanLayoutBoth
    /\ \E space \in Spaces, ls \in States :
         \E r \in {AnyElement_measure(slot, cx, space, ls)},
            q \in {Option_measure_erased(twin.h, twin.cx, space, ls)} :
             /\ slot' = r.slot
             /\ Record("measure", SlotId, space, 0, r)
             /\ twin' = Twin(q)
    /\ UNCHANGED <<pass, paints, compositeVars, parentVars>>

BothPaint ==
    /\ \E ps \in States :
         \E r \in {AnyElement_paint(slot, cx, ps)},
            q \in {Option_paint_erased(twin.h, twin.cx, ps)} :
             /\ slot' = r.slot
             /\ Record("paint", SlotId, NoSpace, 0, r)
             /\ paints' = paints + Count(r.cx.log, "node_paint")
             /\ twin' = Twin(q)
    /\ UNCHANGED <<pass, compositeVars, parentVars>>

BothDraw ==
    /\ CanLayoutBoth
    /\ \E origin \in Origins, space \in Spaces, ls \in States, ps \in States :
         \E r \in {AnyElement_draw(slot, cx, origin, space, ls, ps)},
            q \in {Option_draw_erased(twin.h, twin.cx, origin, space, ls, ps)} :
             /\ slot' = r.slot
             /\ Record("draw", SlotId, space, origin, r)
             /\ paints' = paints + Count(r.cx.log, "node_paint")
             /\ twin' = Twin(q)
    /\ UNCHANGED <<pass, compositeVars, parentVars>>

BothInnerId ==
    /\ \E r \in {AnyElement_inner_id(slot, cx)},
          q \in {Option_element_id_erased(twin.h, twin.cx)} :
         /\ slot' = r.slot
         /\ Record("inner_id", SlotId, NoSpace, 0, r)
         /\ twin' = Twin(q)
    /\ UNCHANGED <<pass, paints, compositeVars, parentVars>>

\* The next pass: a new handle for the node, and the re-erasure of an equal one.
BothNewPass ==
    /\ pass < MaxPasses
    /\ \E element \in {NoId} \cup Ids :
         /\ slot' = AnyElement_new(element)
         /\ twin' = [twin EXCEPT !.h = AnyElement_into_any(AnyElement_new(element)),
                                 !.ok = TRUE, !.ret = 0, !.log = <<>>]
         /\ last' = [NoOp EXCEPT !.op = "new", !.id = element, !.before = slot,
                                 !.store0 = cx.store, !.offsets0 = cx.offsets]
    /\ pass' = pass + 1
    /\ paints' = 0
    /\ UNCHANGED <<cx, expect, laid, compositeVars, parentVars>>

NextErased ==
    BothLayout \/ BothMeasure \/ BothPaint \/ BothDraw \/ BothInnerId \/ BothNewPass

SpecErased == InitErased /\ [][NextErased]_vars

\* ------------------------------------------------- the composite adapter
\* The identity of the node the adapter's component renders, and of the
\* nested node the held composite state keeps.
ComponentId == IF adapter.component = NoComponent THEN NoId ELSE adapter.component
RenderedId == IF frame.rendered_element = NoElement THEN NoId ELSE frame.rendered_element

\* The sizes a caller of paint may hand in as bounds.
BoundsArgs == {SolveSize(space) : space \in Spaces}

\* Layout of the adapter as its draw-phase wrapper makes it; the wrapper keeps
\* the returned state inline, and keeps what it had when the layout fails.
AdapterLayout ==
    /\ CanLayout
    /\ adapter.live
    /\ \E ls \in States :
         \E r \in {DrawableElement_layout_composite(adapter, cx, ls)} :
             /\ adapter' = r.adapter
             /\ frame' = IF r.ok THEN r.state ELSE frame
             /\ Record("adapter_layout", ComponentId, NoSpace, 0, r)
    /\ UNCHANGED <<slot, pass, paints, erasedVars, parentVars>>

\* Element::layout called by a node that holds the adapter and hands its
\* composite state back in; the state is moved into the call.
CompositeLayout ==
    /\ CanLayout
    /\ adapter.live
    /\ frame.some
    /\ \E ls \in States :
         \E r \in {CompositeElement_layout(adapter, frame, cx, ls)} :
             /\ adapter' = r.adapter
             /\ frame' = r.state
             /\ Record("composite_layout", ComponentId, NoSpace, 0, r)
    /\ UNCHANGED <<slot, pass, paints, erasedVars, parentVars>>

\* Element::paint against the held composite state; the adapter is moved
\* into the call.
CompositePaint ==
    /\ adapter.live
    /\ frame.some
    /\ \E bounds \in BoundsArgs, ps \in States :
         \E r \in {CompositeElement_paint(frame, cx, bounds, ps)} :
             /\ adapter' = [adapter EXCEPT !.live = FALSE]
             /\ frame' = r.state
             /\ Record("composite_paint", RenderedId, NoSpace, 0, r)
    /\ UNCHANGED <<slot, pass, paints, erasedVars, parentVars>>

\* The next pass: a new adapter around a new component.
CompositeNew ==
    /\ pass < MaxPasses
    /\ \E component \in {NoId} \cup Ids :
         /\ adapter' = CompositeElement_new(component)
         /\ last' = [NoOp EXCEPT !.op = "new_adapter", !.id = component, !.before = slot,
                                 !.store0 = cx.store, !.offsets0 = cx.offsets]
    /\ pass' = pass + 1
    /\ UNCHANGED <<slot, cx, expect, laid, paints, frame, erasedVars, parentVars>>

NextComposite == AdapterLayout \/ CompositeLayout \/ CompositePaint \/ CompositeNew

SpecComposite == InitComposite /\ [][NextComposite]_vars

\* ------------------------------------------------------ the children helper
\* The values given to child and children are nodes, known by their identity.
Items == {NoId} \cup Ids

Batches == UNION {[1..n -> Items] : n \in 0..MaxBatch}

Child ==
    /\ Len(children) < MaxChildren
    /\ \E item \in Items :
         /\ children' = ParentElement_child(children, item)
         /\ args' = Append(args, item)
         /\ last' = [NoOp EXCEPT !.op = "child", !.ret = 1]
    /\ UNCHANGED <<slot, cx, expect, laid, pass, paints, erasedVars, compositeVars>>

Children ==
    /\ \E items \in Batches :
         /\ Len(children) + Len(items) <= MaxChildren
         /\ children' = ParentElement_children(children, items)
         /\ args' = args \o items
         /\ last' = [NoOp EXCEPT !.op = "children", !.ret = Len(items)]
    /\ UNCHANGED <<slot, cx, expect, laid, pass, paints, erasedVars, compositeVars>>

NextParent == Child \/ Children

SpecParent == Init /\ [][NextParent]_vars

\* ================================================================== claims
\* The node-layout, node-paint and continuation calls an operation made.
LayoutCalls(l) == Count(l.log, "node_layout")
PaintCalls(l) == Count(l.log, "node_paint")
Computes(l) == Count(l.log, "compute_layout")
BoundsReads(l) == Count(l.log, "layout_bounds")
StoreCalls(l) == Count(l.log, "state_read") + Count(l.log, "state_write")

\* The one event of a kind in an operation's log.
TheEvent(l, e) == l.log[CHOOSE i \in Events(l.log, e) : TRUE]

OnWrapper(l) == l.before.some

\* C1 (as claimed): no operation on one wrapper ever lowers its phase along
\* Start -> LayoutRequested -> LayoutComputed -> consumed.
C1_PhaseNeverMovesBack ==
    [][pass' = pass => PhaseRank(slot') >= PhaseRank(slot)]_vars

\* C2: paint on a wrapper still in phase Start fails fatally, without
\* invoking the node's paint and without reading the solver's bounds.
C2_PaintBeforeLayoutFails ==
    (last.op = "paint" /\ OnWrapper(last) /\ last.before.w.phase = Start)
        => (~last.ok /\ PaintCalls(last) = 0 /\ BoundsReads(last) = 0)

C2_Witness ==
    /\ last.op = "paint" /\ OnWrapper(last) /\ last.before.w.phase = Start
    /\ ~last.ok

\* C3: through one container the node's paint is invoked at most once; every
\* paint or draw leaves the container empty, and a paint or draw on an empty
\* container fails without invoking the node's paint.
C3_PaintAtMostOnce ==
    /\ paints <= 1
    /\ last.op \in {"paint", "draw"} => ~slot.some
    /\ (last.op \in {"paint", "draw"} /\ ~OnWrapper(last))
           => (~last.ok /\ PaintCalls(last) = 0)

C3_Witness ==
    /\ last.op \in {"paint", "draw"} /\ ~OnWrapper(last)
    /\ paints = 1 /\ ~last.ok

\* C4: the previous state handed to an identified node's layout is exactly
\* what the node's own logic (its last layout, then its paint) left under that
\* identity, which is also what the store holds; it is None exactly when no
\* layout ran under the identity before.
C4_PreviousStateIsPersisted ==
    /\ \A id \in Ids : cx.store[id] = expect[id]
    /\ (last.id # NoId /\ LayoutCalls(last) > 0)
           => /\ LayoutCalls(last) = 1
              /\ TheEvent(last, "node_layout").a = last.expect0
              /\ (TheEvent(last, "node_layout").a = NoState) <=> ~last.laid0

C4_Witness ==
    /\ pass = MaxPasses
    /\ last.id # NoId /\ LayoutCalls(last) = 1
    /\ OnWrapper(last) /\ last.before.w.phase = Start
    /\ TheEvent(last, "node_layout").a # NoState
    /\ TheEvent(last, "node_layout").a # TheEvent(last, "node_layout").b

\* C5: after layout the wrapper holds inline frame state if and only if the
\* node has no identity, and measure keeps it so.
C5_InlineStateIffUnidentified ==
    (slot.some /\ slot.w.phase \in {LayoutRequested, LayoutComputed})
        => (slot.w.frame_state # NoState <=> slot.w.element = NoId)

C5_Witness ==
    /\ slot.some /\ slot.w.phase = LayoutComputed /\ slot.w.element = NoId
    /\ slot.w.frame_state # NoState
    /\ last.op = "measure" /\ OnWrapper(last)
    /\ last.before.w.phase = LayoutComputed
    /\ last.before.w.available_space # last.space

\* C6: for an unidentified node no operation touches the persisted store, and
\* the one-off draw hands its continuation the state layout(None) returned as
\* the node's paint left it.
C6_UnidentifiedBypassesStore ==
    /\ (last.id = NoId /\ last.op \in {"layout", "measure", "paint", "draw", "draw_once"})
           => (StoreCalls(last) = 0 /\ cx.store = last.store0)
    /\ (last.id = NoId /\ last.op = "draw_once")
           => /\ last.ok
              /\ LayoutCalls(last) = 1 /\ PaintCalls(last) = 1
              /\ Count(last.log, "continuation") = 1
              /\ TheEvent(last, "node_layout").a = NoState
              /\ TheEvent(last, "node_paint").b = TheEvent(last, "node_layout").b
              /\ TheEvent(last, "continuation").a = TheEvent(last, "node_paint").c

C6_Witness ==
    /\ last.id = NoId /\ last.op = "draw_once" /\ last.ok
    /\ \E id \in Ids : cx.store[id] # NoState
    /\ TheEvent(last, "node_paint").c # TheEvent(last, "node_paint").b

\* Two consecutive operations on the same wrapper are both measure calls
\* that reached it.
ConsecutiveMeasures ==
    /\ last.op = "measure" /\ last.ok /\ OnWrapper(last)
    /\ last'.op = "measure" /\ pass' = pass

\* C7: of two consecutive measure calls with one constraint the second asks
\* the solver nothing and returns the size the solver holds for the same
\* layout id; together they compute at most once.
C7_SameConstraintComputesOnce ==
    [][(ConsecutiveMeasures /\ last'.space = last.space)
          => /\ Computes(last') = 0
             /\ Computes(last) + Computes(last') <= 1
             /\ last'.ok
             /\ slot'.w.layout_id = slot.w.layout_id
             /\ last'.ret = cx'.bounds[slot.w.layout_id]
             /\ last'.ret = SolveSize(last.space)]_vars

C7_Witness ==
    /\ last.op = "measure" /\ last.ok /\ OnWrapper(last)
    /\ last.before.w.phase = LayoutComputed
    /\ last.before.w.available_space = last.space
    /\ Computes(last) = 0
    /\ last.ret = SolveSize(last.space)

\* C8 (as claimed): two consecutive measure calls with distinct constraints
\* c1 then c2 compute exactly twice, once with c1 and once with c2.
C8_DistinctConstraintsComputeTwice ==
    [][(ConsecutiveMeasures /\ last'.space # last.space)
          => /\ Computes(last) = 1 /\ TheEvent(last, "compute_layout").b = last.space
             /\ Computes(last') = 1 /\ TheEvent(last', "compute_layout").b = last'.space
             /\ slot'.w.available_space = last'.space
             /\ last'.ret = SolveSize(last'.space)]_vars

\* C8 (amended): the second call always computes exactly once, with c2, and
\* leaves c2 recorded and returned; the first computes once, with c1, unless
\* it found the wrapper already computed for c1, and then it computes nothing.
C8_DistinctConstraintsRecompute ==
    [][(ConsecutiveMeasures /\ last'.space # last.space)
          => /\ Computes(last') = 1
             /\ TheEvent(last', "compute_layout").b = last'.space
             /\ TheEvent(last', "compute_layout").a = slot.w.layout_id
             /\ slot'.w.phase = LayoutComputed
             /\ slot'.w.available_space = last'.space
             /\ last'.ret = SolveSize(last'.space)
             /\ last'.ret = cx'.bounds[slot'.w.layout_id]
             /\ IF /\ last.before.w.phase = LayoutComputed
                   /\ last.before.w.available_space = last.space
                THEN Computes(last) = 0
                ELSE /\ Computes(last) = 1
                     /\ TheEvent(last, "compute_layout").b = last.space]_vars

C8_Witness ==
    /\ last.op = "measure" /\ last.ok /\ OnWrapper(last)
    /\ last.before.w.phase = LayoutComputed
    /\ last.before.w.available_space # last.space
    /\ Computes(last) = 1
    /\ slot.w.available_space = last.space
    /\ last.ret = SolveSize(last.space)

\* C9: draw leaves the ambient offset stack as it found it, whether paint
\* returned normally or failed inside the offset scope.
C9_DrawRestoresOffset ==
    last.op = "draw" => cx.offsets = last.offsets0

\* A draw whose paint read the bounds inside the shifted scope and then failed.
C9_Witness ==
    /\ last.op = "draw" /\ OnWrapper(last) /\ ~last.ok
    /\ BoundsReads(last) > 0
    /\ last.log[Len(last.log)].off = last.origin
    /\ last.origin # last.offsets0[Len(last.offsets0)]
    /\ cx.offsets = last.offsets0

\* C10: on a container emptied by paint or draw, measure and layout fail
\* without invoking the node's layout or the solver.
C10_NoMeasureAfterConsumption ==
    (last.op \in {"measure", "layout"} /\ ~OnWrapper(last))
        => (~last.ok /\ LayoutCalls(last) = 0 /\ Computes(last) = 0 /\ ~slot.some)

C10_Witness ==
    /\ last.op = "measure" /\ ~OnWrapper(last) /\ ~last.ok
    /\ paints = 1

\* C11 (as claimed): the handle into_any makes of a handle is equivalent to
\* it: every layout, measure, paint, draw and inner_id call returns the same
\* result, fails in the same cases and makes the same calls to the node, the
\* solver and the store; in particular inner_id reports the same identity.
C11_ReErasedIsEquivalent ==
    last.op \in {"layout", "measure", "paint", "draw", "inner_id"}
        => /\ twin.ok = last.ok
           /\ twin.ret = last.ret
           /\ twin.log = last.log

\* C12 (as claimed): when the component of a composite adapter renders a node
\* with identity, that node's state goes through the persisted store: in a
\* later pass the layout of the adapter looks the state up under the identity,
\* hands the nested layout what the node left in the pass before (not None),
\* and writes back what the nested layout returns.
C12_NestedStateRoundTrips ==
    (last.op = "adapter_layout" /\ last.ok /\ last.id # NoId /\ last.laid0)
        => /\ Count(last.log, "state_read") = 1
           /\ Count(last.log, "state_write") = 1
           /\ TheEvent(last, "node_layout").a # NoState
           /\ TheEvent(last, "node_layout").a = last.expect0

\* The position of the one event of a kind in an operation's log.
Pos(l, e) == CHOOSE i \in Events(l.log, e) : TRUE

\* The bounds reads an operation made inside the scope shifted by its origin:
\* those of the paint step of a draw.
PaintReads(l) == {i \in Events(l.log, "layout_bounds") : l.log[i].off = l.origin}

\* C13: one draw(origin, constraint) on a wrapper in phase Start makes, in this
\* order and each exactly once, the node's layout, the solver's compute_layout
\* for the returned layout id with the given constraint, the bounds read of
\* the paint step, and the node's paint, which receives the bounds the solver
\* holds for that layout id after the compute.
C13_DrawOrder ==
    (last.op = "draw" /\ OnWrapper(last) /\ last.before.w.phase = Start)
        => /\ last.ok
           /\ LayoutCalls(last) = 1 /\ Computes(last) = 1 /\ PaintCalls(last) = 1
           /\ Cardinality(PaintReads(last)) = 1
           /\ Pos(last, "node_layout") < Pos(last, "compute_layout")
           /\ \A i \in PaintReads(last) :
                  /\ Pos(last, "compute_layout") < i
                  /\ i < Pos(last, "node_paint")
                  /\ last.log[i].a = TheEvent(last, "node_layout").c
                  /\ last.log[i].b = TheEvent(last, "node_paint").a
           /\ TheEvent(last, "compute_layout").a = TheEvent(last, "node_layout").c
           /\ TheEvent(last, "compute_layout").b = last.space
           /\ TheEvent(last, "node_paint").a = SolveSize(last.space)
           /\ TheEvent(last, "node_paint").a = cx.bounds[TheEvent(last, "node_layout").c]

C13_Witness ==
    /\ last.op = "draw" /\ OnWrapper(last) /\ last.before.w.phase = Start
    /\ last.id # NoId /\ last.ok
    /\ PaintCalls(last) = 1
    /\ last.space = NumSpaces

\* C14 (as claimed): in draw(origin, constraint) the measure step (the node's
\* layout and the solver's compute_layout) and the paint step both run while
\* the ambient offset is shifted by origin.
C14_MeasureAndPaintInsideOffset ==
    (last.op = "draw" /\ OnWrapper(last))
        => \A i \in 1..Len(last.log) :
               last.log[i].ev \in {"node_layout", "compute_layout", "layout_bounds",
                                   "node_paint"}
                   => last.log[i].off = last.origin

\* The bounds read that ends the measure step of a draw: the first one.
MeasureRead(l) ==
    CHOOSE i \in Events(l.log, "layout_bounds") :
        \A j \in Events(l.log, "layout_bounds") : i <= j

\* C14 (amended): in draw(origin, constraint) the measure step (the node's
\* layout, compute_layout and measure's bounds read) runs before the offset
\* scope is entered, under the caller's ambient offset; only the paint step
\* (its bounds read, the store access and the node's paint) runs while the
\* offset is shifted by origin.
C14_OnlyPaintInsideOffset ==
    (last.op = "draw" /\ OnWrapper(last))
        => /\ BoundsReads(last) = 2
           /\ \A i \in 1..Len(last.log) :
                  /\ i <= MeasureRead(last)
                         => last.log[i].off = last.offsets0[Len(last.offsets0)]
                  /\ i > MeasureRead(last) => last.log[i].off = last.origin
                  /\ last.log[i].ev \in {"node_layout", "compute_layout"}
                         => i < MeasureRead(last)
                  /\ last.log[i].ev = "node_paint" => i > MeasureRead(last) + 1

C14_Witness ==
    /\ last.op = "draw" /\ OnWrapper(last) /\ last.before.w.phase = Start
    /\ last.id = NoId /\ last.ok
    /\ last.origin # last.offsets0[Len(last.offsets0)]
    /\ TheEvent(last, "node_layout").off # TheEvent(last, "node_paint").off

\* The context a paint started from, rebuilt from what paint leaves alone
\* and what the last operation recorded.
CxBefore == [cx EXCEPT !.store = last.store0, !.offsets = last.offsets0]

\* A paint reached a wrapper of an identified node that had been laid out.
PaintsIdentified ==
    /\ last.op = "paint" /\ OnWrapper(last)
    /\ last.before.w.phase \in {LayoutRequested, LayoutComputed}
    /\ last.before.w.frame_state = NoState
    /\ last.id # NoId

\* C15: painting the wrapper of an identified node that has been laid out
\* (no inline state) reads the node's state from the store, invokes the node's
\* paint with it exactly once, writes the state the paint left back under the
\* same identity and hands no state back; when the store holds no state for
\* the identity the paint fails after the lookup, without invoking the node's
\* paint and without writing.
C15_PaintPersistedState ==
    PaintsIdentified
        => /\ Count(last.log, "state_read") = 1
           /\ TheEvent(last, "state_read").a = last.id
           /\ TheEvent(last, "state_read").b = last.store0[last.id]
           /\ IF last.store0[last.id] # NoState
              THEN /\ last.ok
                   /\ PaintCalls(last) = 1
                   /\ TheEvent(last, "node_paint").b = last.store0[last.id]
                   /\ Count(last.log, "state_write") = 1
                   /\ TheEvent(last, "state_write").a = last.id
                   /\ TheEvent(last, "state_write").b = TheEvent(last, "node_paint").c
                   /\ Pos(last, "state_read") < Pos(last, "node_paint")
                   /\ Pos(last, "node_paint") < Pos(last, "state_write")
                   /\ cx.store[last.id] = TheEvent(last, "node_paint").c
                   /\ DrawableElement_paint(last.before.w, CxBefore,
                                            TheEvent(last, "node_paint").c).ret = NoState
              ELSE /\ ~last.ok
                   /\ PaintCalls(last) = 0
                   /\ Count(last.log, "state_write") = 0
                   /\ cx.store = last.store0

\* A paint that found the state of a laid-out identified node gone.
C15_Witness ==
    /\ PaintsIdentified
    /\ last.store0[last.id] = NoState
    /\ ~last.ok
    /\ BoundsReads(last) = 1

\* C16: RenderOnce::draw on an identified node hands its continuation the
\* state the store holds under the identity after paint; what the continuation
\* leaves is written back, and it is the previous state handed to the next
\* layout under the same identity.
C16_ContinuationStateIsPersisted ==
    [][/\ (last'.op = "draw_once" /\ last'.id # NoId /\ last'.ok)
              => /\ Count(last'.log, "continuation") = 1
                 /\ PaintCalls(last') = 1
                 /\ Pos(last', "node_paint") < Pos(last', "continuation")
                 /\ TheEvent(last', "continuation").a = TheEvent(last', "node_paint").c
                 /\ last'.log[Len(last'.log)].ev = "state_write"
                 /\ last'.log[Len(last'.log)].a = last'.id
                 /\ last'.log[Len(last'.log)].b = TheEvent(last', "continuation").b
                 /\ cx'.store[last'.id] = TheEvent(last', "continuation").b
       /\ (/\ last.op = "draw_once" /\ last.id # NoId /\ last.ok
           /\ last'.id = last.id /\ LayoutCalls(last') > 0)
              => TheEvent(last', "node_layout").a = TheEvent(last, "continuation").b]_vars

\* A one-off draw of an identified node whose layout saw an earlier pass's
\* state and whose continuation changed what paint left.
C16_Witness ==
    /\ last.op = "draw_once" /\ last.id # NoId /\ last.ok
    /\ TheEvent(last, "node_layout").a # NoState
    /\ TheEvent(last, "continuation").b # TheEvent(last, "continuation").a
    /\ cx.store[last.id] = TheEvent(last, "continuation").b

\* The step is a layout of the adapter, through its wrapper or directly.
LaysOutAdapter == last'.op \in {"adapter_layout", "composite_layout"}

\* The nested previous state a layout of the adapter is supplied with: that
\* of the held composite state in a direct call, none through the wrapper.
SuppliedNestedState ==
    IF last'.op = "composite_layout" THEN frame.rendered_element_state ELSE NoState

\* C17: the component of an adapter is consumed by its first layout. The
\* render step runs once per adapter, the nested layout receives the nested
\* state of the supplied composite state (None when none is supplied), and a
\* later layout of the same adapter fails without rendering; paint consumes the
\* nested node the layout stored, and a paint against a composite state whose
\* nested node is gone fails.
C17_ComponentConsumedOnce ==
    [][/\ adapter'.renders <= 1
       /\ LaysOutAdapter
              => IF adapter.component # NoComponent
                 THEN /\ last'.ok
                      /\ Count(last'.log, "render") = 1
                      /\ TheEvent(last', "render").a = adapter.component
                      /\ LayoutCalls(last') = 1
                      /\ Pos(last', "render") < Pos(last', "node_layout")
                      /\ TheEvent(last', "node_layout").a = SuppliedNestedState
                      /\ adapter'.component = NoComponent
                      /\ adapter'.renders = adapter.renders + 1
                      /\ frame'.some
                      /\ frame'.rendered_element = adapter.component
                      /\ frame'.rendered_element_state = TheEvent(last', "node_layout").b
                 ELSE /\ ~last'.ok
                      /\ Count(last'.log, "render") = 0
                      /\ LayoutCalls(last') = 0
                      /\ adapter' = adapter
       /\ last'.op = "composite_paint"
              => IF frame.rendered_element # NoElement
                 THEN /\ last'.ok
                      /\ PaintCalls(last') = 1
                      /\ TheEvent(last', "node_paint").b = frame.rendered_element_state
                      /\ frame'.rendered_element = NoElement
                      /\ frame'.rendered_element_state = TheEvent(last', "node_paint").c
                 ELSE /\ ~last'.ok
                      /\ PaintCalls(last') = 0
                      /\ frame' = frame]_vars

\* A second layout of an adapter that has rendered: it failed.
C17_Witness ==
    /\ last.op \in {"adapter_layout", "composite_layout"}
    /\ ~last.ok
    /\ adapter.live /\ adapter.renders = 1 /\ adapter.component = NoComponent

\* Every child is a new handle (a full container, a wrapper in phase Start)
\* around the argument at its position.
ChildrenAreArgs ==
    /\ Len(children) = Len(args)
    /\ \A i \in 1..Len(args) :
           /\ children[i].some
           /\ children[i].w.phase = Start
           /\ children[i].w.element = args[i]

\* C18: child appends exactly one handle at the end of the children and
\* children one handle per item in the order of the input; both leave the
\* children already present where they were, so the sequence is always the
\* arguments in call order.
C18_ChildrenAppendInOrder ==
    [][/\ ChildrenAreArgs'
       /\ Len(children') >= Len(children)
       /\ SubSeq(children', 1, Len(children)) = children
       /\ last'.op = "child" => Len(children') = Len(children) + 1
       /\ last'.op = "children" => Len(children') = Len(children) + last'.ret]_vars

\* Two different items given to children after other children were there.
C18_Witness ==
    /\ last.op = "children" /\ last.ret = 2
    /\ Len(children) > 2
    /\ args[Len(args)] # args[Len(args) - 1]
    /\ ChildrenAreArgs

\* C19: every measure(c) that reaches a wrapper returns normally with the
\* wrapper in LayoutComputed, c recorded, and the layout id of the most recent
\* layout (the one measure made from Start, else the one the wrapper had);
\* so measure never fails on a wrapper, only on the empty container.
C19_MeasureLeavesLayoutComputed ==
    /\ (last.op = "measure" /\ OnWrapper(last))
           => /\ last.ok
              /\ slot.some
              /\ slot.w.phase = LayoutComputed
              /\ slot.w.available_space = last.space
              /\ slot.w.layout_id = cx.next_layout_id - 1
              /\ LayoutCalls(last) = (IF last.before.w.phase = Start THEN 1 ELSE 0)
              /\ LayoutCalls(last) = 1
                     => slot.w.layout_id = TheEvent(last, "node_layout").c
              /\ LayoutCalls(last) = 0
                     => slot.w.layout_id = last.before.w.layout_id
              /\ last.ret = cx.bounds[slot.w.layout_id]
    /\ (last.op = "measure" /\ ~last.ok) => ~OnWrapper(last)

\* A measure of a wrapper that an earlier layout call had left in
\* LayoutRequested.
C19_Witness ==
    /\ last.op = "measure" /\ OnWrapper(last) /\ last.ok
    /\ last.before.w.phase = LayoutRequested
    /\ slot.w.phase = LayoutComputed
    /\ slot.w.layout_id = last.before.w.layout_id
    /\ last.id # NoId

\* C20: a paint that fails because the wrapper is still in Start has already
\* taken the wrapper out: the container is left empty, and on an empty
\* container every layout, measure, paint, draw and identity query fails,
\* makes no call and leaves it empty.
C20_FailedPaintEmptiesContainer ==
    /\ (last.op = "paint" /\ OnWrapper(last) /\ last.before.w.phase = Start)
           => (~last.ok /\ ~slot.some)
    /\ (/\ last.op \in {"layout", "measure", "paint", "draw", "inner_id"}
        /\ ~OnWrapper(last))
           => (~last.ok /\ ~slot.some /\ last.log = <<>>)

\* An identity query on a container that no paint of the node emptied: the
\* failed paint before layout did.
C20_Witness ==
    /\ last.op = "inner_id" /\ ~OnWrapper(last) /\ ~last.ok
    /\ paints = 0
    /\ ~slot.some

====
